---------------------------- MODULE Spec2Model ----------------------------
(***************************************************************************)
(* State-machine model of three independent units of the repository:       *)
(*   - examples/tagcn.py: the fixed-epoch train/evaluate loop;             *)
(*   - torch_geometric/datasets/protein_mpnn_dataset.py: cluster           *)
(*     selection and the assembly of protein records in process();         *)
(*   - torch_geometric/nn/attention/bigbird.py: padding to the block size  *)
(*     and the construction of the block/band masks.                       *)
(* Each unit has its own specification (SpecTrain, SpecClusters,           *)
(* SpecProcess, SpecBigBird); the variables of the other units stay idle.  *)
(*                                                                         *)
(* Python strings are modelled as sequences of one-character strings, so   *)
(* that str.split and iteration over a string's characters are computed    *)
(* and not assumed.  Accuracies (correct / total) are modelled by their    *)
(* numerators 0..MaxAcc over a fixed mask size.                            *)
(***************************************************************************)
EXTENDS Integers, Sequences, FiniteSets, TLC

VARIABLES
    \* ---- examples/tagcn.py ----
    tpc,            \* position in the script: "train", "test", "done"
    epoch,          \* loop variable of `for epoch in range(1, 201)`
    best_val_acc,   \* tagcn.py:68
    test_acc,       \* tagcn.py:68
    val_acc,        \* tagcn.py:72, last value returned by test()
    tmp_test_acc,   \* tagcn.py:72, last value returned by test()
    trainCalls,     \* number of train() calls made so far
    testCalls,      \* number of test() calls made so far
    maxValSeen,     \* history: largest val_acc returned by test() so far (-1: none)
    testsAtMax      \* history: the tmp_test_acc values of the epochs whose val_acc = maxValSeen

trainVars == <<tpc, epoch, best_val_acc, test_acc, val_acc, tmp_test_acc,
               trainCalls, testCalls, maxValSeen, testsAtMax>>

VARIABLES
    \* ---- torch_geometric/datasets/protein_mpnn_dataset.py ----
    ppc,            \* position in __init__/process: "idle", "new", "cached", "loop",
                    \* "breakpoint", "returned", "stub", "aborted", "loaded", "load_failed";
                    \* in _build_clusters alone: "call", "built"
    split,          \* self.split
    df,             \* rows of list.csv (raw_paths[0])
    val_ids,        \* valid_clusters.txt (raw_paths[1])
    test_ids,       \* test_clusters.txt (raw_paths[2])
    metaFiles,      \* the files <prefix>.pt that exist, with their contents
    chainFiles,     \* the files <prefix>_<chain>.pt that exist, with their contents
    processedFile,  \* processed_paths[0]: whether it exists, and its contents
    clusters,       \* the dictionary returned by _build_clusters
    todo,           \* the (chain_id, hash) pairs in the order the two loops visit them
    pos,            \* position of the current pair in todo
    data_list,      \* process(): data_list
    asmb_i,         \* process(): the assembly picked for the current chain
    asmb            \* process(): the assembly dictionary of the current chain, in insertion order

dsVars == <<ppc, split, df, val_ids, test_ids, metaFiles, chainFiles, processedFile,
            clusters, todo, pos, data_list, asmb_i, asmb>>

VARIABLES
    \* ---- torch_geometric/nn/attention/bigbird.py ----
    bpc,            \* "idle", "start", "padded", "masks", "assert_failed"
    via,            \* "forward": BigBirdEncoder.forward pads first; "direct": the mask
                    \* is handed to create_masks_for_block_sparse_attn as it is
    block_size,     \* block_size argument
    x_in,           \* the tokens handed in (one batch row, one feature)
    mask_in,        \* the validity mask handed in (one batch row)
    x,              \* tokens after pad_to_block_size
    mask,           \* mask after pad_to_block_size
    padding_len,    \* first result of pad_to_block_size
    blocked_encoder_mask,   \* mask.view(batch, seq_length // block_size, block_size)
    band_mask,      \* result of create_band_mask_from_inputs
    from_mask,      \* mask.view(batch, 1, seq_length, 1)
    to_mask         \* mask.view(batch, 1, 1, seq_length)

bbVars == <<bpc, via, block_size, x_in, mask_in, x, mask, padding_len,
            blocked_encoder_mask, band_mask, from_mask, to_mask>>

vars == <<trainVars, dsVars, bbVars>>

-----------------------------------------------------------------------------
(* Bounds *)

\* accuracies are k / MaxAcc, k in 0..MaxAcc
MaxAcc == 2
\* rows of list.csv when _build_clusters is checked on its own
MaxRows == 2
\* sequence lengths and block sizes handed to the block-sparse mask construction
MaxSeqLen == 10
MaxBlock == 2

-----------------------------------------------------------------------------
(* examples/tagcn.py *)

\* range(1, 201): the last epoch of the loop
NumEpochs == 200

\* the values test() can return for one mask: correct / total, in [0, 1]
AccLevels == 0..MaxAcc

TrainInit ==
    /\ tpc = "train"
    /\ epoch = 1
    /\ best_val_acc = 0
    /\ test_acc = 0
    /\ val_acc = 0
    /\ tmp_test_acc = 0
    /\ trainCalls = 0
    /\ testCalls = 0
    /\ maxValSeen = -1
    /\ testsAtMax = {}

TrainIdle ==
    /\ tpc = "idle"
    /\ epoch = 0
    /\ best_val_acc = 0
    /\ test_acc = 0
    /\ val_acc = 0
    /\ tmp_test_acc = 0
    /\ trainCalls = 0
    /\ testCalls = 0
    /\ maxValSeen = -1
    /\ testsAtMax = {}

\* a selection that also takes an epoch that ties with the best one
IsNewBestOrTie(v, best) == v >= best

\* tagcn.py:73: the comparison that selects a new best epoch
IsNewBest(v, best) == v > best

\* a loop that also stops on the first epoch without improvement (early stopping)
LoopContinuesEarlyStop(e, v, best) == e < NumEpochs /\ v >= best

\* tagcn.py:69: `for epoch in range(1, 201)` has another iteration after epoch e;
\* neither the validation accuracy v nor the best one so far is consulted
LoopContinues(e, v, best) == e < NumEpochs

\* tagcn.py:70-71: start of the loop body, one gradient step
TrainStep ==
    /\ tpc = "train"
    /\ trainCalls' = trainCalls + 1
    /\ tpc' = "test"
    /\ UNCHANGED <<epoch, best_val_acc, test_acc, val_acc, tmp_test_acc,
                   testCalls, maxValSeen, testsAtMax>>
    /\ UNCHANGED <<dsVars, bbVars>>

\* tagcn.py:72-78: evaluation, selection of the best epoch, print, next epoch
EvalStep ==
    /\ tpc = "test"
    /\ \E v \in AccLevels, t \in AccLevels :
          /\ val_acc' = v
          /\ tmp_test_acc' = t
          /\ IF IsNewBest(v, best_val_acc)
                THEN /\ best_val_acc' = v
                     /\ test_acc' = t
                ELSE UNCHANGED <<best_val_acc, test_acc>>
          /\ maxValSeen' = IF v > maxValSeen THEN v ELSE maxValSeen
          /\ testsAtMax' = IF v > maxValSeen THEN {t}
                           ELSE IF v = maxValSeen THEN testsAtMax \cup {t}
                           ELSE testsAtMax
    /\ testCalls' = testCalls + 1
    /\ IF LoopContinues(epoch, val_acc', best_val_acc')
          THEN /\ epoch' = epoch + 1
               /\ tpc' = "train"
          ELSE /\ epoch' = epoch
               /\ tpc' = "done"
    /\ UNCHANGED trainCalls
    /\ UNCHANGED <<dsVars, bbVars>>

-----------------------------------------------------------------------------
(* Python helpers *)

Range(s) == {s[i] : i \in DOMAIN s}

\* concatenation of a sequence of sequences (str.join, torch.cat(dim=0))
RECURSIVE Concat(_)
Concat(ss) == IF Len(ss) = 0 THEN <<>> ELSE Head(ss) \o Concat(Tail(ss))

RECURSIVE SplitAcc(_, _, _, _)
SplitAcc(s, sep, i, cur) ==
    IF i > Len(s) THEN <<cur>>
    ELSE IF s[i] = sep THEN <<cur>> \o SplitAcc(s, sep, i + 1, <<>>)
    ELSE SplitAcc(s, sep, i + 1, Append(cur, s[i]))

\* str.split(sep) with a one-character separator: "A,B" -> ["A", "B"], "" -> [""]
Split(s, sep) == SplitAcc(s, sep, 1, <<>>)

\* the characters of a string, each as a one-character string (`for c in s`)
Chars(s) == {<<s[i]>> : i \in DOMAIN s}

\* the orders in which Python may iterate over a set of strings
Perms(S) == {p \in [1..Cardinality(S) -> S] : Range(p) = S}

\* the elements of a finite set of integers in ascending order
RECURSIVE SortedSeq(_)
SortedSeq(S) ==
    IF S = {} THEN <<>>
    ELSE LET m == CHOOSE a \in S : \A b \in S : a <= b
         IN <<m>> \o SortedSeq(S \ {m})

-----------------------------------------------------------------------------
(* torch_geometric/datasets/protein_mpnn_dataset.py *)

\* __init__ defaults: rescut = 3.5 and homo = 0.7 in tenths, datcut = '2030-Jan-01' by its year
Rescut == 35
Datcut == 2030
Homo == 7

Splits == {"train", "valid", "test"}

\* a train split that excludes only the validation clusters
InSplitForgetsTest(sp, c, vids, tids) ==
    IF sp = "valid" THEN c \in Range(vids)
    ELSE IF sp = "test" THEN c \in Range(tids)
    ELSE ~(c \in Range(vids))

\* _build_clusters, lines 102-108: the row filter on df['CLUSTER'] for split sp
InSplit(sp, c, vids, tids) ==
    IF sp = "valid" THEN c \in Range(vids)
    ELSE IF sp = "test" THEN c \in Range(tids)
    ELSE ~(c \in Range(vids)) /\ ~(c \in Range(tids))

\* _build_clusters, lines 98-99: the resolution and deposition-date cut
PassesCut(row) == row.RESOLUTION <= Rescut /\ row.DEPOSITION <= Datcut

\* _build_clusters: cluster id -> list of (CHAINID, HASH), rows in file order
BuildClusters(sp, frame, vids, tids) ==
    LET cut == SelectSeq(frame, PassesCut)
        Keep(row) == InSplit(sp, row.CLUSTER, vids, tids)
        data == SelectSeq(cut, Keep)
        keys == {data[i].CLUSTER : i \in DOMAIN data}
    IN [c \in keys |->
           LET Of(row) == row.CLUSTER = c
               rows == SelectSeq(data, Of)
           IN [i \in DOMAIN rows |-> <<rows[i].CHAINID, rows[i].HASH>>]]

\* process, lines 201-202: the pairs in the order `clusters.items()` (groupby sorts
\* the keys) and `pdb_list` yield them
VisitOrder(cl) ==
    LET keys == SortedSeq(DOMAIN cl)
    IN Concat([n \in DOMAIN keys |-> cl[keys[n]]])

\* process, lines 203-204
PdbId(chain_id) == Split(chain_id, "_")[1]
ChId(chain_id) == Split(chain_id, "_")[2]
Prefix(pdb_id) == <<SubSeq(pdb_id, 2, 3), pdb_id>>

\* process, lines 215-219: ids of the assemblies whose chain list contains ch_id
AsmbCandidates(meta, ch_id) ==
    {meta.asmb_ids[a] : a \in {b \in DOMAIN meta.asmb_ids :
                                  ch_id \in Range(Split(meta.asmb_chains[b], ","))}}

\* transforms of every assembly, whichever was picked
SelectedIdxAll(meta, picked) == DOMAIN meta.asmb_ids

\* process, line 239: indices of the transform entries of the picked assembly
SelectedIdx(meta, picked) == {k \in DOMAIN meta.asmb_ids : meta.asmb_ids[k] = picked}

\* process, lines 242-246: keys of the `chains` dictionary; `for c in asmb_chains[i]`
\* iterates over the characters of the comma-separated string
LoadedChains(meta, idx) ==
    {c \in UNION {Chars(meta.asmb_chains[i]) : i \in idx} : c \in Range(meta.chains)}

\* process, lines 258-260
ChainsK(meta, k) == Range(meta.chains) \cap Range(Split(meta.asmb_chains[k], ","))

\* process, line 263-273: some chains[c] lookup raises KeyError
HasKeyError(meta, idx) ==
    \E k \in idx : \E c \in ChainsK(meta, k) : c \notin LoadedChains(meta, idx)

\* process, lines 266-267: rotation u and translation r applied to every residue
\* (coordinates are one-dimensional here: u in {1, -1}, r an integer)
ApplyXform(t, xyz) == [r \in DOMAIN xyz |-> t.u * xyz[r] + t.r]

\* process, lines 250-271: the entries (c, k, i) -> xyz_i of asmb in insertion order;
\* ord[k] is the order in which the set chains_k is iterated
AsmbEntries(meta, cfiles, prefix, idx, ord) ==
    LET ks == SortedSeq(idx)
    IN Concat([a \in DOMAIN ks |->
          LET k == ks[a]
          IN Concat([b \in DOMAIN ord[k] |->
                LET c == ord[k][b]
                IN [i \in DOMAIN meta.xform[k] |->
                      [c |-> c, k |-> k, i |-> i,
                       xyz |-> ApplyXform(meta.xform[k][i], cfiles[<<prefix, c>>].xyz)]]])])

\* chains at or above the threshold count as similar
HomoSetInclusive(meta, ch_id) ==
    LET ref == CHOOSE j \in DOMAIN meta.chains :
                   /\ meta.chains[j] = ch_id
                   /\ \A l \in 1..(j - 1) : meta.chains[l] # ch_id
    IN {meta.chains[j] : j \in {l \in DOMAIN meta.chains : meta.tm[ref][l] >= Homo}}

\* process, lines 276-281: chains whose similarity to ch_id exceeds self.homo
HomoSet(meta, ch_id) ==
    LET ref == CHOOSE j \in DOMAIN meta.chains :
                   /\ meta.chains[j] = ch_id
                   /\ \A l \in 1..(j - 1) : meta.chains[l] # ch_id
    IN {meta.chains[j] : j \in {l \in DOMAIN meta.chains : meta.tm[ref][l] > Homo}}

\* a chain-segment index that numbers the segments from 1
SegmentIndexFromOne(entries) ==
    Concat([n \in DOMAIN entries |-> [r \in DOMAIN entries[n].xyz |-> n]])

\* process, line 289 and 296: torch.full((v.shape[0],), counter) per segment, concatenated
SegmentIndex(entries) ==
    Concat([n \in DOMAIN entries |-> [r \in DOMAIN entries[n].xyz |-> n - 1]])

\* process, lines 283-299: the multi-chain record
MultiRecord(meta, cfiles, prefix, chain_id, entries) ==
    LET homo == HomoSet(meta, ChId(chain_id))
        counters == [n \in DOMAIN entries |-> n - 1]
        Masked(m) == entries[m + 1].c \in homo
    IN [seq |-> Concat([n \in DOMAIN entries |-> cfiles[<<prefix, entries[n].c>>].seq]),
        xyz |-> Concat([n \in DOMAIN entries |-> entries[n].xyz]),
        idx |-> SegmentIndex(entries),
        masked |-> SelectSeq(counters, Masked),
        label |-> chain_id]

\* a single-chain record whose coordinates went through the first transform
SingleRecordTransformed(cfiles, prefix, chain_id) ==
    LET chain == cfiles[<<prefix, ChId(chain_id)>>]
    IN [seq |-> chain.seq,
        xyz |-> [r \in DOMAIN chain.xyz |-> chain.xyz[r] + 10],
        idx |-> [r \in 1..Len(chain.seq) |-> 0],
        masked |-> <<0>>,
        label |-> chain_id]

\* process, lines 224-232: the single-chain record
SingleRecord(cfiles, prefix, chain_id) ==
    LET chain == cfiles[<<prefix, ChId(chain_id)>>]
        L == Len(chain.seq)
    IN [seq |-> chain.seq,
        xyz |-> chain.xyz,
        idx |-> [r \in 1..L |-> 0],
        masked |-> <<0>>,
        label |-> chain_id]

-----------------------------------------------------------------------------
(* The raw files the dataset is processed from *)

sA == <<"A">>
sB == <<"B">>
sAB == <<"A", "B">>
Pdb1 == <<"1", "a", "b", "c">>
Pdb2 == <<"2", "x", "y", "z">>

MakeChainId(pdb_id, ch_id) == pdb_id \o <<"_">> \o ch_id

\* meta['chains'] of a structure
ChainLists == {<<sA>>, <<sA, sB>>, <<sA, sAB>>}

\* entries of meta['asmb_chains']: "A", "A,B", "AB", "B"
EntryStrings == {<<"A">>, <<"A", ",", "B">>, <<"A", "B">>, <<"B">>}

\* meta['asmb_ids'] with meta['asmb_chains']: no entry, one, or two entries of the
\* same or of two assemblies
AsmbLists ==
    {[ids |-> <<>>, strs |-> <<>>]}
    \cup {[ids |-> <<"1">>, strs |-> <<s>>] : s \in EntryStrings}
    \cup {[ids |-> <<"1", i>>, strs |-> <<s, t>>] :
             i \in {"1", "2"}, s \in EntryStrings, t \in EntryStrings}

\* meta['asmb_xform<k>']: one transform for the first entry, two for the second
XformCatalogue ==
    << <<[u |-> 1, r |-> 10]>>,
       <<[u |-> -1, r |-> 20], [u |-> 1, r |-> 30]>> >>

\* meta['tm'][i, j, 1] in tenths: 7 is the threshold itself, 8 is above it
SimLevels == {7, 8}

MetaSet ==
    UNION {{[chains |-> cl,
             asmb_ids |-> al.ids,
             asmb_chains |-> al.strs,
             xform |-> SubSeq(XformCatalogue, 1, Len(al.ids)),
             tm |-> tm] :
               al \in AsmbLists,
               tm \in [DOMAIN cl -> [DOMAIN cl -> SimLevels]]} : cl \in ChainLists}

\* the chain files of Pdb1; in the "mismatch" variant chain B has one residue more in
\* its coordinates than in its sequence
ChainFileSet(variant) ==
    (<<Prefix(Pdb1), sA>> :> [seq |-> <<"G", "A">>, xyz |-> <<1, 2>>])
    @@ (<<Prefix(Pdb1), sB>> :>
          [seq |-> <<"K">>, xyz |-> IF variant = "mismatch" THEN <<5, 6>> ELSE <<5>>])
    @@ (<<Prefix(Pdb1), sAB>> :> [seq |-> <<"M", "V">>, xyz |-> <<7, 8>>])

Row(chain_id, cluster, resolution) ==
    [CHAINID |-> chain_id, CLUSTER |-> cluster, RESOLUTION |-> resolution,
     DEPOSITION |-> 2020, HASH |-> cluster * 100]

Reverse(s) == [i \in DOMAIN s |-> s[Len(s) + 1 - i]]

\* list.csv for a structure Pdb1 with chains cl and a structure Pdb2 whose file is missing
DfOptions(cl) ==
    LET rows(c) == [i \in DOMAIN cl |-> Row(MakeChainId(Pdb1, cl[i]), c, 20)]
        gone(c) == Row(MakeChainId(Pdb2, sA), c, 20)
    IN {rows(1),
        <<gone(1)>> \o rows(1),
        Reverse(rows(1)) \o <<Row(MakeChainId(Pdb1, sA), 1, 40)>>,
        rows(2) \o <<gone(3)>>,
        <<Row(MakeChainId(Pdb1, cl[1]), 1, 20), gone(1),
          Row(MakeChainId(Pdb1, cl[Len(cl)]), 1, 20), Row(MakeChainId(Pdb1, cl[1]), 1, 20)>>}

\* processed_paths[0]: not there, or there from an earlier construction
NoFile == [exists |-> FALSE, content |-> <<>>]
CachedFile == [exists |-> TRUE, content |-> <<>>]

DsIdle ==
    /\ ppc = "idle"
    /\ split = "train"
    /\ df = <<>>
    /\ val_ids = <<>>
    /\ test_ids = <<>>
    /\ metaFiles = <<>>
    /\ chainFiles = <<>>
    /\ processedFile = NoFile
    /\ clusters = <<>>
    /\ todo = <<>>
    /\ pos = 0
    /\ data_list = <<>>
    /\ asmb_i = "none"
    /\ asmb = <<>>

\* the state before ProteinMPNNDataset(root, split=...) is constructed
ProcessInit ==
    /\ ppc = "new"
    /\ split \in Splits
    /\ val_ids = <<2>>
    /\ test_ids = <<3>>
    /\ \E meta \in MetaSet :
          /\ metaFiles = (Prefix(Pdb1) :> meta)
          /\ df \in DfOptions(meta.chains)
    /\ chainFiles \in {ChainFileSet("consistent"), ChainFileSet("mismatch")}
    /\ processedFile \in {NoFile, CachedFile}
    /\ clusters = <<>>
    /\ todo = <<>>
    /\ pos = 0
    /\ data_list = <<>>
    /\ asmb_i = "none"
    /\ asmb = <<>>

-----------------------------------------------------------------------------
(* __init__ and process *)

CurChainId == todo[pos][1]
CurPrefix == Prefix(PdbId(CurChainId))
CurMeta == metaFiles[CurPrefix]
InLoop == ppc = "loop" /\ pos <= Len(todo)

\* the dataset base class skips process() when the processed file is there
SkipProcess ==
    /\ ppc = "new"
    /\ processedFile.exists
    /\ ppc' = "cached"
    /\ UNCHANGED <<split, df, val_ids, test_ids, metaFiles, chainFiles, processedFile,
                   clusters, todo, pos, data_list, asmb_i, asmb>>
    /\ UNCHANGED <<trainVars, bbVars>>

\* process, lines 198-200
ProcessStart ==
    /\ ppc = "new"
    /\ ~processedFile.exists
    /\ clusters' = BuildClusters(split, df, val_ids, test_ids)
    /\ todo' = VisitOrder(clusters')
    /\ pos' = 1
    /\ data_list' = <<>>
    /\ ppc' = "loop"
    /\ UNCHANGED <<split, df, val_ids, test_ids, metaFiles, chainFiles, processedFile,
                   asmb_i, asmb>>
    /\ UNCHANGED <<trainVars, bbVars>>

\* a missing <prefix>.pt that ends process with the stub (the alternative named in the
\* comment at line 207) instead of going on
SkipMissingReturnsStub ==
    /\ InLoop
    /\ CurPrefix \notin DOMAIN metaFiles
    /\ ppc' = "stub"
    /\ UNCHANGED <<split, df, val_ids, test_ids, metaFiles, chainFiles, pos,
                   processedFile, clusters, todo, data_list, asmb_i, asmb>>
    /\ UNCHANGED <<trainVars, bbVars>>

\* process, lines 206-208: no <prefix>.pt, continue
SkipMissing ==
    /\ InLoop
    /\ CurPrefix \notin DOMAIN metaFiles
    /\ pos' = pos + 1
    /\ UNCHANGED <<ppc, split, df, val_ids, test_ids, metaFiles, chainFiles,
                   processedFile, clusters, todo, data_list, asmb_i, asmb>>
    /\ UNCHANGED <<trainVars, bbVars>>

\* process, lines 209-233: the chain is in no assembly
AppendSingle ==
    /\ InLoop
    /\ CurPrefix \in DOMAIN metaFiles
    /\ Cardinality(AsmbCandidates(CurMeta, ChId(CurChainId))) < 1
    /\ data_list' = Append(data_list, SingleRecord(chainFiles, CurPrefix, CurChainId))
    /\ pos' = pos + 1
    /\ UNCHANGED <<ppc, split, df, val_ids, test_ids, metaFiles, chainFiles,
                   processedFile, clusters, todo, asmb_i, asmb>>
    /\ UNCHANGED <<trainVars, bbVars>>

\* process, lines 209-219 and 235-299: one candidate assembly is picked at random, its
\* transforms are applied and the multi-chain record is appended; line 302 then stops
\* in the debugger
AssembleRecord ==
    /\ InLoop
    /\ CurPrefix \in DOMAIN metaFiles
    /\ \E a \in AsmbCandidates(CurMeta, ChId(CurChainId)) :
          LET idx == SelectedIdx(CurMeta, a)
              orders == {o \in [idx -> UNION {Perms(ChainsK(CurMeta, k)) : k \in idx}] :
                            \A k \in idx : o[k] \in Perms(ChainsK(CurMeta, k))}
          IN /\ ~HasKeyError(CurMeta, idx)
             /\ \E ord \in orders :
                   /\ asmb' = AsmbEntries(CurMeta, chainFiles, CurPrefix, idx, ord)
                   /\ data_list' = Append(data_list,
                          MultiRecord(CurMeta, chainFiles, CurPrefix, CurChainId, asmb'))
             /\ asmb_i' = a
    /\ ppc' = "breakpoint"
    /\ UNCHANGED <<split, df, val_ids, test_ids, metaFiles, chainFiles,
                   processedFile, clusters, todo, pos>>
    /\ UNCHANGED <<trainVars, bbVars>>

\* a KeyError handled like the missing file: the chain is skipped and the loop goes on
AssembleKeyErrorSkips ==
    /\ InLoop
    /\ CurPrefix \in DOMAIN metaFiles
    /\ \E a \in AsmbCandidates(CurMeta, ChId(CurChainId)) :
          /\ HasKeyError(CurMeta, SelectedIdx(CurMeta, a))
          /\ asmb_i' = a
    /\ asmb' = <<>>
    /\ pos' = pos + 1
    /\ UNCHANGED <<ppc, split, df, val_ids, test_ids, metaFiles, chainFiles,
                   processedFile, clusters, todo, data_list>>
    /\ UNCHANGED <<trainVars, bbVars>>

\* process, lines 264-273: a chain of the picked assembly was not loaded; the
\* KeyError is caught and process returns {'seq': np.zeros(5)}
AssembleKeyError ==
    /\ InLoop
    /\ CurPrefix \in DOMAIN metaFiles
    /\ \E a \in AsmbCandidates(CurMeta, ChId(CurChainId)) :
          /\ HasKeyError(CurMeta, SelectedIdx(CurMeta, a))
          /\ asmb_i' = a
    /\ asmb' = <<>>
    /\ ppc' = "stub"
    /\ UNCHANGED <<split, df, val_ids, test_ids, metaFiles, chainFiles,
                   processedFile, clusters, todo, pos, data_list>>
    /\ UNCHANGED <<trainVars, bbVars>>

\* process, lines 301-302: pdb.set_trace(), the debugger is told to continue
BreakpointContinue ==
    /\ ppc = "breakpoint"
    /\ pos' = pos + 1
    /\ ppc' = "loop"
    /\ UNCHANGED <<split, df, val_ids, test_ids, metaFiles, chainFiles,
                   processedFile, clusters, todo, data_list, asmb_i, asmb>>
    /\ UNCHANGED <<trainVars, bbVars>>

\* process, lines 301-302: pdb.set_trace(), the debugger quits (or has no input):
\* BdbQuit leaves process and __init__
BreakpointQuit ==
    /\ ppc = "breakpoint"
    /\ ppc' = "aborted"
    /\ UNCHANGED <<split, df, val_ids, test_ids, metaFiles, chainFiles,
                   processedFile, clusters, todo, pos, data_list, asmb_i, asmb>>
    /\ UNCHANGED <<trainVars, bbVars>>

\* process, lines 201 and 303-326: both loops are exhausted; nothing is saved
\* (self.save is commented out) and process returns None
ProcessReturn ==
    /\ ppc = "loop"
    /\ pos > Len(todo)
    /\ ppc' = "returned"
    /\ UNCHANGED <<split, df, val_ids, test_ids, metaFiles, chainFiles,
                   processedFile, clusters, todo, pos, data_list, asmb_i, asmb>>
    /\ UNCHANGED <<trainVars, bbVars>>

\* __init__, line 78: self.load(self.processed_paths[0])
LoadProcessed ==
    /\ ppc \in {"returned", "stub", "cached"}
    /\ ppc' = IF processedFile.exists THEN "loaded" ELSE "load_failed"
    /\ UNCHANGED <<split, df, val_ids, test_ids, metaFiles, chainFiles,
                   processedFile, clusters, todo, pos, data_list, asmb_i, asmb>>
    /\ UNCHANGED <<trainVars, bbVars>>

-----------------------------------------------------------------------------
(* _build_clusters on its own: any table, any two cluster-id lists *)

ClusterIds == {1, 2, 3}

\* (RESOLUTION, DEPOSITION) of a row: inside both cuts, resolution too coarse, too recent
CutKinds == {<<20, 2020>>, <<40, 2020>>, <<20, 2031>>}

Frames ==
    UNION {[1..n -> ClusterIds \X CutKinds] : n \in 0..MaxRows}

FrameOf(f) ==
    [i \in DOMAIN f |->
        [CHAINID |-> MakeChainId(Pdb1, IF i % 2 = 1 THEN sA ELSE sB),
         CLUSTER |-> f[i][1],
         RESOLUTION |-> f[i][2][1],
         DEPOSITION |-> f[i][2][2],
         HASH |-> i]]

IdLists == {SortedSeq(S) : S \in SUBSET ClusterIds}

ClustersInit ==
    /\ ppc = "call"
    /\ split \in Splits
    /\ df \in {FrameOf(f) : f \in Frames}
    /\ val_ids \in IdLists
    /\ test_ids \in IdLists
    /\ metaFiles = <<>>
    /\ chainFiles = <<>>
    /\ processedFile = NoFile
    /\ clusters = <<>>
    /\ todo = <<>>
    /\ pos = 0
    /\ data_list = <<>>
    /\ asmb_i = "none"
    /\ asmb = <<>>

\* _build_clusters, lines 96-111
BuildClustersCall ==
    /\ ppc = "call"
    /\ clusters' = BuildClusters(split, df, val_ids, test_ids)
    /\ ppc' = "built"
    /\ UNCHANGED <<split, df, val_ids, test_ids, metaFiles, chainFiles, processedFile,
                   todo, pos, data_list, asmb_i, asmb>>
    /\ UNCHANGED <<trainVars, bbVars>>

-----------------------------------------------------------------------------
(* torch_geometric/nn/attention/bigbird.py *)

\* Python's s[a:b] on the first dimension, a and b 0-based and possibly negative
PySlice(s, a, b) ==
    LET n == Len(s)
        Norm(i) == IF i < 0 THEN (IF i + n < 0 THEN 0 ELSE i + n)
                   ELSE (IF i > n THEN n ELSE i)
    IN SubSeq(s, Norm(a) + 1, Norm(b))

\* padding that adds a whole block when the length is already a multiple
PaddingLenNoOuterMod(seq_length, bs) == bs - (seq_length % bs)

\* pad_to_block_size, line 31
PaddingLen(seq_length, bs) == (bs - (seq_length % bs)) % bs

\* pad_to_block_size, lines 30-38: <<padding_len, x, mask>>
PadToBlockSize(xs, ms, bs) ==
    LET p == PaddingLen(Len(xs), bs)
    IN IF p > 0
          THEN <<p, xs \o [i \in 1..p |-> 0], ms \o [i \in 1..p |-> FALSE]>>
          ELSE <<p, xs, ms>>

\* create_masks_for_block_sparse_attn, lines 71-72: mask.view(batch, n, block_size)
BlockedMask(ms, bs) ==
    [j \in 1..(Len(ms) \div bs) |-> [q \in 1..bs |-> ms[(j - 1) * bs + q]]]

\* a band that is shifted one block to the left
ExpBlockedToPadShifted(to_blocked) ==
    LET left == PySlice(to_blocked, 0, -4)
        mid == PySlice(to_blocked, 1, -3)
        right == PySlice(to_blocked, 2, -2)
    IN [l \in DOMAIN mid |-> left[l] \o mid[l] \o right[l]]

\* create_band_mask_from_inputs, lines 62-65: torch.cat of the three slices, dim=2
ExpBlockedToPad(to_blocked) ==
    LET left == PySlice(to_blocked, 1, -3)
        mid == PySlice(to_blocked, 2, -2)
        right == PySlice(to_blocked, 3, -1)
    IN [l \in DOMAIN mid |-> left[l] \o mid[l] \o right[l]]

\* create_band_mask_from_inputs, lines 66-69: einsum("blq,blk->blqk")
BandMask(from_blocked, to_blocked) ==
    LET frm == PySlice(from_blocked, 2, -2)
        exp == ExpBlockedToPad(to_blocked)
    IN [l \in DOMAIN frm |->
          [q \in DOMAIN frm[l] |->
              [k \in DOMAIN exp[l] |-> frm[l][q] /\ exp[l][k]]]]

BbIdle ==
    /\ bpc = "idle"
    /\ via = "forward"
    /\ block_size = 1
    /\ x_in = <<>>
    /\ mask_in = <<>>
    /\ x = <<>>
    /\ mask = <<>>
    /\ padding_len = 0
    /\ blocked_encoder_mask = <<>>
    /\ band_mask = <<>>
    /\ from_mask = <<>>
    /\ to_mask = <<>>

\* the arguments: any length from 0, any validity mask, tokens 1, 2, 3, ... (non-zero,
\* so that padding shows)
BbInit ==
    /\ bpc = "start"
    /\ via \in {"forward", "direct"}
    /\ block_size \in 1..MaxBlock
    /\ \E n \in 0..MaxSeqLen :
          /\ x_in = [i \in 1..n |-> i]
          /\ mask_in \in [1..n -> BOOLEAN]
    /\ x = x_in
    /\ mask = mask_in
    /\ padding_len = 0
    /\ blocked_encoder_mask = <<>>
    /\ band_mask = <<>>
    /\ from_mask = <<>>
    /\ to_mask = <<>>

\* BigBirdEncoder.forward, line 208
PadStep ==
    /\ bpc = "start"
    /\ via = "forward"
    /\ LET r == PadToBlockSize(x_in, mask_in, block_size)
       IN /\ padding_len' = r[1]
          /\ x' = r[2]
          /\ mask' = r[3]
    /\ bpc' = "padded"
    /\ UNCHANGED <<via, block_size, x_in, mask_in, blocked_encoder_mask, band_mask,
                   from_mask, to_mask>>
    /\ UNCHANGED <<trainVars, dsVars>>

\* create_masks_for_block_sparse_attn, lines 41-79 (called at forward, lines 209-210,
\* or directly on a mask)
CreateMasksStep ==
    /\ \/ bpc = "padded"
       \/ bpc = "start" /\ via = "direct"
    /\ IF Len(mask) % block_size = 0
          THEN /\ blocked_encoder_mask' = BlockedMask(mask, block_size)
               /\ band_mask' = BandMask(blocked_encoder_mask', blocked_encoder_mask')
               /\ from_mask' = mask
               /\ to_mask' = mask
               /\ bpc' = "masks"
          ELSE /\ bpc' = "assert_failed"
               /\ UNCHANGED <<blocked_encoder_mask, band_mask, from_mask, to_mask>>
    /\ UNCHANGED <<via, block_size, x_in, mask_in, x, mask, padding_len>>
    /\ UNCHANGED <<trainVars, dsVars>>

-----------------------------------------------------------------------------
(* Specifications *)

NextTrain == TrainStep \/ EvalStep

InitTrain == TrainInit /\ DsIdle /\ BbIdle

SpecTrain == InitTrain /\ [][NextTrain]_vars

\* the script is a sequential program: it keeps running until the loop ends
FairSpecTrain == SpecTrain /\ WF_vars(NextTrain)

NextProcess ==
    \/ SkipProcess
    \/ ProcessStart
    \/ SkipMissing
    \/ AppendSingle
    \/ AssembleRecord
    \/ AssembleKeyError
    \/ BreakpointContinue
    \/ BreakpointQuit
    \/ ProcessReturn
    \/ LoadProcessed

InitProcess == ProcessInit /\ TrainIdle /\ BbIdle

SpecProcess == InitProcess /\ [][NextProcess]_vars

NextClusters == BuildClustersCall

InitClusters == ClustersInit /\ TrainIdle /\ BbIdle

SpecClusters == InitClusters /\ [][NextClusters]_vars

NextBigBird == PadStep \/ CreateMasksStep

InitBigBird == BbInit /\ TrainIdle /\ DsIdle

SpecBigBird == InitBigBird /\ [][NextBigBird]_vars

-----------------------------------------------------------------------------
(* Claims about examples/tagcn.py *)

\* C1: the test accuracy reported after the last epoch is the test accuracy
\* measured at an epoch whose validation accuracy is the maximum over all epochs.
C1_ReportedAtBestEpoch ==
    tpc = "done" => test_acc \in testsAtMax

C2_Shape ==
    /\ tpc \in {"train", "test", "done"}
    /\ epoch \in 1..NumEpochs
    /\ tpc = "train" => trainCalls = epoch - 1 /\ testCalls = epoch - 1
    /\ tpc = "test" => trainCalls = epoch /\ testCalls = epoch - 1
    /\ tpc = "done" => epoch = NumEpochs /\ trainCalls = NumEpochs /\ testCalls = NumEpochs

\* C2: the loop runs exactly NumEpochs epochs and then terminates, whatever the
\* validation accuracies are: in every epoch one train() is followed by one test(),
\* the loop is left only after epoch NumEpochs, and it is left eventually.
C2_FixedEpochs == []C2_Shape /\ <>(tpc = "done")

\* the loop ended after 200 epochs, the last of them with a validation accuracy
\* below the best one
C2_Witness ==
    /\ tpc = "done"
    /\ testCalls = NumEpochs
    /\ maxValSeen = MaxAcc
    /\ val_acc = 0

\* C13: after every epoch best_val_acc is the maximum of the validation accuracies
\* measured so far; it never decreases, and test_acc changes in an epoch only if
\* best_val_acc strictly increases in it (on a tie the earlier test accuracy is kept).
C13_BestIsRunningMax ==
    /\ [](testCalls >= 1 => best_val_acc = maxValSeen)
    /\ [][/\ best_val_acc' >= best_val_acc
          /\ test_acc' # test_acc => best_val_acc' > best_val_acc]_vars

\* an epoch tied with the best validation accuracy, measured another test accuracy,
\* and the earlier one was kept
C13_Witness ==
    /\ testCalls >= 2
    /\ best_val_acc > 0
    /\ val_acc = best_val_acc
    /\ tmp_test_acc # test_acc
    /\ test_acc \in testsAtMax
    /\ tmp_test_acc \in testsAtMax

-----------------------------------------------------------------------------
(* Claims about torch_geometric/datasets/protein_mpnn_dataset.py *)

ClusterKeys(sp) == DOMAIN BuildClusters(sp, df, val_ids, test_ids)

\* C3: the clusters returned for split 'valid' are all in the validation list, those
\* for 'test' all in the test list, those for 'train' in neither list; so the train
\* split shares no cluster with the valid split or with the test split.
C3_SplitByMembership ==
    ppc = "built" =>
        /\ split = "valid" => \A c \in DOMAIN clusters : c \in Range(val_ids)
        /\ split = "test" => \A c \in DOMAIN clusters : c \in Range(test_ids)
        /\ split = "train" =>
              \A c \in DOMAIN clusters : c \notin Range(val_ids) /\ c \notin Range(test_ids)
        /\ ClusterKeys("train") \cap ClusterKeys("valid") = {}
        /\ ClusterKeys("train") \cap ClusterKeys("test") = {}

\* the train split was built from a table that also holds a validation cluster and a
\* test cluster
C3_Witness ==
    /\ ppc = "built"
    /\ split = "train"
    /\ clusters # <<>>
    /\ ClusterKeys("valid") # {}
    /\ ClusterKeys("test") # {}

LastRecord == data_list[Len(data_list)]

\* no entry of meta['asmb_chains'] lists ch_id
ListedNowhere(meta, ch_id) ==
    \A a \in DOMAIN meta.asmb_chains : ch_id \notin Range(Split(meta.asmb_chains[a], ","))

\* C4: a chain whose structure file exists and which no assembly lists gets exactly
\* one record appended, a single-chain record: its own sequence and coordinates,
\* untransformed, a chain-segment index of as many zeros as the sequence has
\* characters, and the chain id as label.
C4_SingleChainRecord ==
    [][(/\ InLoop
        /\ CurPrefix \in DOMAIN metaFiles
        /\ ListedNowhere(CurMeta, ChId(CurChainId)))
       => LET chain == chainFiles[<<CurPrefix, ChId(CurChainId)>>]
              n == Len(data_list)
              rec == data_list'[n + 1]
          IN /\ Len(data_list') = n + 1
             /\ SubSeq(data_list', 1, n) = data_list
             /\ rec.seq = chain.seq
             /\ rec.xyz = chain.xyz
             /\ Len(rec.idx) = Len(chain.seq)
             /\ \A r \in DOMAIN rec.idx : rec.idx[r] = 0
             /\ rec.label = CurChainId]_vars

\* the chain just visited is listed by no assembly, and its record is the last one
C4_Witness ==
    /\ ppc = "loop"
    /\ pos > 1
    /\ Len(data_list) >= 1
    /\ LastRecord.label = todo[pos - 1][1]
    /\ Prefix(PdbId(LastRecord.label)) \in DOMAIN metaFiles
    /\ metaFiles[Prefix(PdbId(LastRecord.label))].asmb_ids # <<>>
    /\ ListedNowhere(metaFiles[Prefix(PdbId(LastRecord.label))], ChId(LastRecord.label))

C5_Selected ==
    ppc = "breakpoint" =>
        LET meta == CurMeta
            ch_id == ChId(CurChainId)
            rec == LastRecord
        IN /\ \E a \in DOMAIN meta.asmb_ids :
                 /\ meta.asmb_ids[a] = asmb_i
                 /\ ch_id \in Range(Split(meta.asmb_chains[a], ","))
           /\ rec.label = CurChainId
           /\ \A n \in DOMAIN asmb :
                 LET e == asmb[n]
                     own == chainFiles[<<CurPrefix, e.c>>].xyz
                 IN /\ e.c \in Range(meta.chains)
                    /\ e.k \in DOMAIN meta.asmb_ids
                    /\ meta.asmb_ids[e.k] = asmb_i
                    /\ e.c \in Range(Split(meta.asmb_chains[e.k], ","))
                    /\ e.i \in DOMAIN meta.xform[e.k]
                    /\ Len(e.xyz) = Len(own)
                    /\ \A r \in DOMAIN own :
                          e.xyz[r] = meta.xform[e.k][e.i].u * own[r] + meta.xform[e.k][e.i].r
           /\ rec.xyz = Concat([n \in DOMAIN asmb |-> asmb[n].xyz])
           /\ rec.seq = Concat([n \in DOMAIN asmb |-> chainFiles[<<CurPrefix, asmb[n].c>>].seq])

\* C5: for a chain with at least one candidate assembly, the one assembly picked is
\* one of the candidates, and the multi-chain record appended for the chain (one
\* record, after the records already collected) is built only from the transforms of
\* that assembly: every segment is a chain of the structure that a transform entry of
\* the picked assembly lists, with that entry's rotation and translation applied.
C5_OneCandidateAssembly ==
    /\ []C5_Selected
    /\ [][(ppc = "loop" /\ ppc' = "breakpoint")
            => /\ Len(data_list') = Len(data_list) + 1
               /\ SubSeq(data_list', 1, Len(data_list)) = data_list]_vars

\* a record was assembled from the second of two assemblies, which has two transforms
C5_Witness ==
    /\ ppc = "breakpoint"
    /\ asmb_i = "2"
    /\ Cardinality(AsmbCandidates(CurMeta, ChId(CurChainId))) = 2
    /\ Len(asmb) >= 2

\* position of chain c in meta['chains']
ChainIndex(meta, c) == CHOOSE j \in DOMAIN meta.chains : meta.chains[j] = c

\* C6: the masked set of a multi-chain record holds exactly the segment indices of
\* the segments whose chain is more similar to the reference chain than the homo
\* threshold, and every masked entry occurs in the chain-segment index.
C6_MaskedAboveThreshold ==
    ppc = "breakpoint" =>
        LET meta == CurMeta
            ref == ChainIndex(meta, ChId(CurChainId))
            rec == LastRecord
            above == {n \in DOMAIN asmb : meta.tm[ref][ChainIndex(meta, asmb[n].c)] > Homo}
        IN /\ Range(rec.masked) = {n - 1 : n \in above}
           /\ \A m \in Range(rec.masked) : m \in Range(rec.idx)

\* a record with a masked and an unmasked segment, the latter exactly at the threshold
C6_Witness ==
    /\ ppc = "breakpoint"
    /\ Len(LastRecord.masked) >= 1
    /\ \E n \in DOMAIN asmb :
          /\ (n - 1) \notin Range(LastRecord.masked)
          /\ CurMeta.tm[ChainIndex(CurMeta, ChId(CurChainId))][ChainIndex(CurMeta, asmb[n].c)] = Homo

\* every loaded chain has as many residues in its coordinates as in its sequence
FilesConsistent ==
    \A f \in DOMAIN chainFiles : Len(chainFiles[f].xyz) = Len(chainFiles[f].seq)

RECURSIVE SumLen(_, _)
SumLen(entries, n) == IF n = 0 THEN 0 ELSE Len(entries[n].xyz) + SumLen(entries, n - 1)

RecordInvariant(rec) ==
    /\ Len(rec.xyz) = Len(rec.seq)
    /\ Len(rec.idx) = Len(rec.seq)
    /\ Len(rec.idx) >= 1 => rec.idx[1] = 0
    /\ \A p \in 1..(Len(rec.idx) - 1) :
          rec.idx[p + 1] = rec.idx[p] \/ rec.idx[p + 1] = rec.idx[p] + 1

\* C7: provided the loaded chains have as many residues as characters, every record
\* has coordinates, sequence and chain-segment index of one length, and the index
\* starts at 0, never decreases and grows by one exactly at the segment boundaries.
C7_RecordInvariant ==
    FilesConsistent =>
        /\ \A n \in DOMAIN data_list : RecordInvariant(data_list[n])
        /\ ppc = "breakpoint" =>
              \A p \in DOMAIN LastRecord.idx :
                 LastRecord.idx[p] = Cardinality({n \in DOMAIN asmb : SumLen(asmb, n) < p})

\* a record of three segments is in the list, next to a single-chain record
C7_Witness ==
    /\ FilesConsistent
    /\ ppc = "breakpoint"
    /\ Len(asmb) >= 3
    /\ \E n \in DOMAIN data_list : data_list[n].masked = <<0>> /\ data_list[n].idx = <<0, 0>>

\* C10: when process() has completed, the processed file of the split exists and
\* holds the assembled records, and the load that follows in __init__ succeeds.
C10_ProcessedFileSaved ==
    /\ ppc = "returned" => processedFile = [exists |-> TRUE, content |-> data_list]
    /\ ppc # "load_failed"

\* C11: a chain whose per-structure metadata file is missing is skipped silently: no
\* record is appended, no error is raised, the records collected so far are
\* unchanged, and processing goes on with the next chain (of this cluster or of the
\* following ones), or returns normally when it was the last.
C11_MissingFileSkipped ==
    [][(InLoop /\ CurPrefix \notin DOMAIN metaFiles)
       => /\ data_list' = data_list
          /\ ppc' = "loop"
          /\ pos' = pos + 1
          /\ todo' = todo
          /\ (pos' <= Len(todo) => todo'[pos'] = todo[pos + 1])]_vars

\* the chain of the missing file was skipped with a record already collected, and the
\* chain after it was processed and its record appended behind the earlier one
C11_Witness ==
    /\ ppc = "loop"
    /\ pos >= 3
    /\ Prefix(PdbId(todo[pos - 2][1])) \notin DOMAIN metaFiles
    /\ Len(data_list) >= 2
    /\ data_list[Len(data_list)].label = todo[pos - 1][1]
    /\ data_list[Len(data_list) - 1].label = todo[pos - 3][1]

\* a chain of the structure that a transform entry of assembly a lists (split on ',')
\* is no key of the dictionary of loaded chains
LookupFails(meta, a) ==
    \E k \in DOMAIN meta.asmb_ids :
        /\ meta.asmb_ids[k] = a
        /\ \E c \in Range(meta.chains) :
              /\ c \in Range(Split(meta.asmb_chains[k], ","))
              /\ c \notin LoadedChains(meta, SelectedIdx(meta, a))

\* C12: a key-lookup failure while the chains of the picked assembly are transformed
\* does not raise: process returns the stub at once, no record is appended for the
\* current chain, no later chain is processed, and the records collected so far are
\* not saved.
C12_KeyErrorReturnsStub ==
    /\ [][(/\ InLoop
           /\ CurPrefix \in DOMAIN metaFiles
           /\ asmb_i' \in AsmbCandidates(CurMeta, ChId(CurChainId))
           /\ LookupFails(CurMeta, asmb_i'))
          => /\ ppc' = "stub"
             /\ data_list' = data_list
             /\ pos' = pos]_vars
    /\ [][ppc = "stub"
          => /\ ppc' \in {"stub", "loaded", "load_failed"}
             /\ data_list' = data_list
             /\ pos' = pos
             /\ processedFile' = processedFile]_vars
    /\ [](ppc = "stub" => ~processedFile.exists)

\* the stub was returned with a record collected and a chain left unvisited
C12_Witness ==
    /\ ppc = "stub"
    /\ Len(data_list) >= 1
    /\ pos < Len(todo)
    /\ ~processedFile.exists

\* C14: every chain a transform of a candidate assembly is applied to (a chain of
\* meta['chains'] listed in the comma-separated chain list of one of its entries) has
\* been loaded into the chains dictionary, whatever the length of its id; so the
\* KeyError branch that returns the stub is never taken.
C14_EveryChainLoaded ==
    /\ (InLoop /\ CurPrefix \in DOMAIN metaFiles) =>
          \A a \in AsmbCandidates(CurMeta, ChId(CurChainId)) :
             \A k \in SelectedIdx(CurMeta, a) :
                \A c \in Range(CurMeta.chains) \cap Range(Split(CurMeta.asmb_chains[k], ",")) :
                   c \in LoadedChains(CurMeta, SelectedIdx(CurMeta, a))
    /\ ppc # "stub"

-----------------------------------------------------------------------------
(* Claims about torch_geometric/nn/attention/bigbird.py *)

\* C8: pad_to_block_size returns a padding length in [0, block_size - 1]; the padded
\* input and mask have the smallest multiple of block_size not below the original
\* length; the original positions are unchanged, every added mask position is False,
\* nothing is added to a length that is a multiple already; and the assertion of
\* create_masks_for_block_sparse_attn never fails on the padded mask.
C8_PadToBlockSize ==
    /\ bpc \in {"padded", "masks", "assert_failed"} /\ via = "forward" =>
          LET n == Len(x_in)
          IN /\ padding_len \in 0..(block_size - 1)
             /\ Len(x) = n + padding_len
             /\ Len(mask) = n + padding_len
             /\ Len(mask) % block_size = 0
             /\ \A m \in n..(Len(mask) - 1) : m % block_size # 0
             /\ \A i \in 1..n : x[i] = x_in[i] /\ mask[i] = mask_in[i]
             /\ \A i \in (n + 1)..Len(mask) : mask[i] = FALSE /\ x[i] = 0
             /\ n % block_size = 0 => padding_len = 0 /\ x = x_in /\ mask = mask_in
    /\ via = "forward" => bpc # "assert_failed"

\* a length that is no multiple of the block size was padded and the masks were built
C8_Witness ==
    /\ bpc = "masks"
    /\ via = "forward"
    /\ block_size = 2
    /\ Len(x_in) = 9
    /\ padding_len = 1
    /\ \E i \in DOMAIN mask_in : mask_in[i]

\* C9: for a mask of n blocks the band mask has one row per interior block j in
\* 2..n-3 (n - 4 rows, none when n <= 4); its entry for query position q of block j
\* and key position k of the concatenation of blocks j-1, j, j+1 is set exactly when
\* the mask is valid at that query position and at that key position.
C9_BandMask ==
    bpc = "masks" =>
        LET bs == block_size
            n == Len(mask) \div bs
            rows == IF n <= 4 THEN 0 ELSE n - 4
        IN /\ Len(blocked_encoder_mask) = n
           /\ Len(band_mask) = rows
           /\ \A j \in 2..(n - 3) :
                 LET row == band_mask[j - 1]
                 IN /\ Len(row) = bs
                    /\ \A q \in 0..(bs - 1) :
                          /\ Len(row[q + 1]) = 3 * bs
                          /\ \A k \in 0..(3 * bs - 1) :
                                row[q + 1][k + 1] =
                                   (/\ mask[j * bs + q + 1]
                                    /\ mask[(j - 1 + (k \div bs)) * bs + (k % bs) + 1])

\* a band of several rows with an entry that is set and one that is not
C9_Witness ==
    /\ bpc = "masks"
    /\ block_size = 2
    /\ Len(band_mask) >= 1
    /\ \E q \in 1..2, k \in 1..6 : band_mask[1][q][k]
    /\ \E q \in 1..2, k \in 1..6 : ~band_mask[1][q][k] /\ mask[4 + q]

=============================================================================
